---- MODULE Spec2Model ----
(***************************************************************************)
(* A model of yasm_build.py: a linear build script that parses its command *)
(* line, imports the compiler environment, confirms with the operator,     *)
(* cleans the workspace, clones and patches the yasm sources, configures,  *)
(* builds and installs them, signs the installed binaries, zips the        *)
(* install tree and removes the sources.                                   *)
(*                                                                         *)
(* File names are sequences of one-character strings, so that sorting,     *)
(* suffix tests and glob matching are computed on the characters.  The     *)
(* file system is the record fs; log is the history of everything the      *)
(* script asked of the outside world (external commands, reads of standard *)
(* input, file system changes), in the order it asked.                     *)
(***************************************************************************)
EXTENDS Integers, Sequences, FiniteSets, TLC

VARIABLES
    platform,   \* sys.platform
    argv,       \* the command line, sys.argv[1:]
    vcvars,     \* what "vcvars64.bat && set" prints on this host
    args,       \* the parsed command line
    environ,    \* os.environ
    home,       \* whether $HOME/unlock-keychain exists
    product,    \* the tree that "ninja install" writes on this host
    fs,         \* the file system under base_dir
    fs0,        \* the file system when the script started
    pc,         \* the statement the script is at
    exitCode,   \* the exit status, once pc = "exit"
    patches,    \* the list built at lines 141-145
    pi,         \* how many patches the loop of line 188 has applied
    wi,         \* how many files the signing walk has visited
    log         \* what the script has done so far

vars ==
    <<platform, argv, vcvars, args, environ, home, product, fs, fs0, pc, exitCode,
      patches, pi, wi, log>>

-----------------------------------------------------------------------------
(* Bounds of the model.                                                    *)

\* Most entries the patches directory holds.
MaxPatchEntries == 3
\* Most files the install tree holds.
MaxFiles == 2

-----------------------------------------------------------------------------
(* Characters and names.                                                   *)

\* The code points of the characters that occur in the model's names.
Ord(c) ==
    CASE c = "-" -> 45 [] c = "." -> 46 [] c = "/" -> 47
      [] c = "0" -> 48 [] c = "1" -> 49 [] c = "2" -> 50 [] c = "3" -> 51
      [] c = "B" -> 66
      [] c = "a" -> 97 [] c = "b" -> 98 [] c = "c" -> 99 [] c = "d" -> 100
      [] c = "e" -> 101 [] c = "f" -> 102 [] c = "g" -> 103 [] c = "h" -> 104
      [] c = "i" -> 105 [] c = "l" -> 108 [] c = "m" -> 109 [] c = "n" -> 110
      [] c = "o" -> 111 [] c = "p" -> 112 [] c = "r" -> 114 [] c = "s" -> 115
      [] c = "t" -> 116 [] c = "x" -> 120 [] c = "y" -> 121 [] c = "z" -> 122

\* str.lower() on one character.
Lower(c) == IF c = "B" THEN "b" ELSE c

\* Tuple comparison as Python compares strings: by code point, a proper
\* prefix first.
RECURSIVE StrLess(_, _)
StrLess(a, b) ==
    IF b = <<>> THEN FALSE
    ELSE IF a = <<>> THEN TRUE
    ELSE IF Ord(Head(a)) # Ord(Head(b)) THEN Ord(Head(a)) < Ord(Head(b))
    ELSE StrLess(Tail(a), Tail(b))

\* str.endswith
EndsWith(s, suf) ==
    /\ Len(s) >= Len(suf)
    /\ SubSeq(s, Len(s) - Len(suf) + 1, Len(s)) = suf

\* The greatest position of a "." in s, 0 when there is none (str.rfind + 1).
RECURSIVE RFindDot(_)
RFindDot(s) ==
    IF s = <<>> THEN 0
    ELSE IF s[Len(s)] = "." THEN Len(s)
    ELSE RFindDot(SubSeq(s, 1, Len(s) - 1))

\* PurePath.suffix: the name from its last dot on, unless that dot is the
\* first or the last character.
Suffix(name) ==
    LET i == RFindDot(name)
    IN  IF 1 < i /\ i < Len(name) THEN SubSeq(name, i, Len(name)) ELSE <<>>

\* The key Path.__lt__ compares: the name itself on POSIX, lower-cased on
\* Windows.
PathKey(plat, name) ==
    IF plat = "win32" THEN [i \in 1..Len(name) |-> Lower(name[i])] ELSE name

\* A sort that puts the greatest name first.
PathLessReversed(plat, a, b) == StrLess(PathKey(plat, b), PathKey(plat, a))

PathLess(plat, a, b) == StrLess(PathKey(plat, a), PathKey(plat, b))

\* sorted(): the entries of S, least first.
RECURSIVE Sorted(_, _)
Sorted(plat, S) ==
    IF S = {} THEN <<>>
    ELSE LET m == CHOOSE x \in S : \A y \in S \ {x} : PathLess(plat, x, y)
         IN  <<m>> \o Sorted(plat, S \ {m})

-----------------------------------------------------------------------------
(* Program constants.                                                      *)

yasm_version == <<"1", ".", "3", ".", "0">>

\* The archive's file name, f'yasm-{yasm_version}.zip'.
ZipName == <<"y", "a", "s", "m", "-">> \o yasm_version \o <<".", "z", "i", "p">>

\* The first four bytes the macOS walk looks for.
FAT_MAGIC == <<202, 254, 186, 190>>

\* The permission bits an archive entry gets.
MODE_EXEC == 493
MODE_REGULAR == 420

timeServers == <<"http://timestamp.digicert.com", "http://timestamp.comodoca.com/rfc3161">>

-----------------------------------------------------------------------------
(* The inputs the model draws from.                                        *)

Platforms == {"linux", "darwin", "win32"}

Answers == {"y", "n", "Y", ""}

\* Entries the patches directory may hold.
PatchNames ==
    { <<"1", ".", "p", "a", "t", "c", "h">>,
      <<"1", "0", ".", "p", "a", "t", "c", "h">>,
      <<"2", ".", "p", "a", "t", "c", "h">>,
      <<"B", ".", "p", "a", "t", "c", "h">>,
      <<"a", ".", "p", "a", "t", "c", "h">>,
      <<"a", ".", "d", "i", "f", "f">>,
      <<".", "p", "a", "t", "c", "h">> }

PatchDirs == {S \in SUBSET PatchNames : Cardinality(S) <= MaxPatchEntries}

File(dir, file, x, magic) == [dir |-> dir, file |-> file, x |-> x, magic |-> magic]

bin == <<"b", "i", "n">>
lib == <<"l", "i", "b">>

\* Two universal binaries, a single-architecture binary, a shell script, a
\* static library, a universal library without the executable bit, an empty
\* executable file and two Windows binaries.
FatExe      == File(bin, <<"y", "a", "s", "m">>, TRUE, FAT_MAGIC)
FatTool     == File(bin, <<"v", "s", "y", "a", "s", "m">>, TRUE, FAT_MAGIC)
ThinExe     == File(bin, <<"y", "t", "a", "s", "m">>, TRUE, <<207, 250, 237, 254>>)
Script      == File(bin, <<"r", "u", "n">>, TRUE, <<35, 33, 47, 98>>)
StaticLib   == File(lib, <<"l", "i", "b", "y", "a", "s", "m", ".", "a">>, FALSE, <<33, 60, 97, 114>>)
FatNoExec   == File(lib, <<"l", "i", "b", "y", "a", "s", "m", ".", "d", "y", "l", "i", "b">>, FALSE, FAT_MAGIC)
EmptyExe    == File(bin, <<"e", "m", "p", "t", "y">>, TRUE, <<>>)
WinExe      == File(bin, <<"y", "a", "s", "m", ".", "e", "x", "e">>, FALSE, <<77, 90, 144, 0>>)
WinDll      == File(bin, <<"y", "a", "s", "m", ".", "d", "l", "l">>, FALSE, <<77, 90, 144, 0>>)
\* A file directly in the install path, below no subdirectory.
Readme      == File(<<>>, <<"R", "E", "A", "D", "M", "E">>, FALSE, <<121, 97, 115, 109>>)

InstallFiles ==
    {FatExe, FatTool, ThinExe, Script, StaticLib, FatNoExec, EmptyExe, WinExe, WinDll,
     Readme}

\* The trees an install may write: the files in the order os.walk yields them.
RECURSIVE TreesOfLen(_)
TreesOfLen(n) ==
    IF n = 0 THEN {<<>>}
    ELSE {Append(t, f) : t \in TreesOfLen(n - 1), f \in InstallFiles}

Trees ==
    {t \in UNION {TreesOfLen(n) : n \in 0..MaxFiles} :
        \A i, j \in 1..Len(t) : i # j => t[i] # t[j]}

\* What a previous run left in the install path and in the artifact directory.
OldTree == <<File(bin, <<"o", "l", "d">>, TRUE, <<35, 33, 47, 98>>)>>
OldZip == <<[name |-> <<"o", "l", "d">>, mode |-> MODE_REGULAR]>>
OldDir == <<"o", "l", "d", "d", "i", "r">>
OldFile == <<"o", "l", "d", ".", "t", "x", "t">>

-----------------------------------------------------------------------------
(* The initial states.                                                     *)

\* The command line that asks for a run with or without the clone, the
\* cleanup, the prompts and the signing.
Argv(nc, cl, pr, sg) ==
    (IF nc THEN <<"--no-clone">> ELSE <<>>) \o (IF cl THEN <<>> ELSE <<"--no-clean">>)
        \o (IF pr THEN <<>> ELSE <<"--no-prompt">>) \o (IF sg THEN <<"--sign">> ELSE <<>>)

\* The values --patch is given in the model: a file of the working directory
\* and a file of the patches directory.
PatchArgs == {"extra.patch", "patches/1.patch"}

\* Command lines with the remaining options, with an option the parser does
\* not know, with an option that lacks its value and with --no-clone alone.
CommandLines ==
    { <<"--no-clone", "--no-sign">>,
      <<"--no-prompt", "--patch">>,
      <<"--no-prompt", "--patch", "extra.patch">>,
      <<"--no-prompt", "--patch", "patches/1.patch">>,
      <<"--no-clone", "--no-prompt", "--patch", "patches/1.patch">>,
      <<"--no-prompt", "--patch", "patches/1.patch", "--patch", "extra.patch">>,
      <<"--no-prompt", "--no-install", "--universal">>,
      <<"--no-clone">> }

\* The bytes of the output of "vcvars64.bat && set": a banner line, two
\* assignments, the second with "=" in its value, each line ended by CR LF.
StdVcvars ==
    <<"*", "*", "\r", "\n",
      "P", "=", "v", "c", "\r", "\n",
      "L", "=", "a", "=", "b", "\r", "\n">>

\* Outputs a host may give: the usual one; none; a message and no
\* assignment; an assignment between blanks, one whose name differs from an
\* earlier one in case only and a last line without CR LF; a line that
\* starts with "=".
VcvarsOutputs ==
    { StdVcvars,
      <<>>,
      <<"n", "o", "\r", "\n">>,
      <<" ", "p", "=", "x", " ", "\r", "\n", "P", "=", "y">>,
      <<"P", "=", "v", "c", "\r", "\n", "=", "C", "=", "d", "\r", "\n">> }

\* os.environ when the script starts.
StartEnviron == {<< <<"P">>, <<"o", "s">> >>, << <<"T">>, <<"t">> >>}

\* The namespace before parse_args has run: the defaults of lines 74-81.
Defaults ==
    [no_clone |-> FALSE, clean |-> TRUE, prompt |-> TRUE, install |-> TRUE,
     patch |-> <<>>, universal |-> FALSE, sign |-> FALSE]

\* A checkout with one patch and the sources in place, nothing built yet.
BaseFs ==
    [patchesExists |-> TRUE,
     patchEntries |-> {<<"1", ".", "p", "a", "t", "c", "h">>},
     artifactExists |-> TRUE, artifactFiles |-> {}, artifactDirs |-> {},
     zip |-> <<>>,
     yasmDir |-> TRUE, source |-> TRUE, srcPatches |-> <<>>, build |-> FALSE,
     cache |-> FALSE, install |-> FALSE, tree |-> <<>>]

\* The states of base_dir a run may start from: the artifact directory
\* absent, empty or holding an earlier archive and a subdirectory; build/,
\* build/src, build/src/build and the install path present or not (a path
\* exists only inside its parent); a stale CMakeCache.txt or none.
WorkspaceStates ==
    {[BaseFs EXCEPT !.artifactExists = ae, !.artifactFiles = af, !.artifactDirs = ad,
                    !.zip = IF ZipName \in af THEN OldZip ELSE <<>>,
                    !.yasmDir = yd, !.source = sr, !.build = bd,
                    !.cache = ca, !.install = ins,
                    !.tree = IF ins THEN OldTree ELSE <<>>] :
        ae \in BOOLEAN, af \in SUBSET {ZipName, OldFile}, ad \in SUBSET {OldDir},
        yd \in BOOLEAN, sr \in BOOLEAN, bd \in BOOLEAN, ca \in BOOLEAN,
        ins \in BOOLEAN}

WellFormedFs(f) ==
    /\ ~f.artifactExists => f.artifactFiles = {} /\ f.artifactDirs = {}
    /\ f.source => f.yasmDir
    /\ f.build => f.source
    /\ f.install => f.yasmDir

Start(plat, av, out, h, prod, f) ==
    /\ platform = plat
    /\ argv = av
    /\ vcvars = out
    /\ args = Defaults
    /\ environ = StartEnviron
    /\ home = h
    /\ product = prod
    /\ fs = f
    /\ fs0 = f
    /\ pc = "parse"
    /\ exitCode = 0
    /\ patches = <<>>
    /\ pi = 0
    /\ wi = 0
    /\ log = <<>>

\* Every workspace state, under every choice of --no-clone, --no-clean and
\* --no-prompt.
InitWorkspace ==
    \E plat \in Platforms, nc, cl, pr \in BOOLEAN, f \in WorkspaceStates :
        /\ WellFormedFs(f)
        /\ Start(plat, Argv(nc, cl, pr, FALSE), StdVcvars, TRUE, <<FatExe>>, f)

\* Every content of the patches directory, the directory missing included.
InitPatches ==
    \E plat \in Platforms, nc \in BOOLEAN, pe \in BOOLEAN, dir \in PatchDirs :
        /\ ~pe => dir = {}
        /\ Start(plat, Argv(nc, TRUE, FALSE, FALSE), StdVcvars, TRUE, <<FatExe>>,
                 [BaseFs EXCEPT !.patchesExists = pe, !.patchEntries = dir])

\* Every install tree, with --sign, with and without the unlock helper.
InitSign ==
    \E plat \in Platforms, h \in BOOLEAN, prod \in Trees :
        Start(plat, Argv(TRUE, TRUE, FALSE, TRUE), StdVcvars, h, prod, BaseFs)

\* Every combination of the flags, with and without an earlier install.
InitFlags ==
    \E plat \in Platforms, nc, cl, pr, sg \in BOOLEAN, h \in BOOLEAN, ins \in BOOLEAN :
        Start(plat, Argv(nc, cl, pr, sg), StdVcvars, h, <<FatExe, WinExe>>,
              [BaseFs EXCEPT !.install = ins, !.tree = IF ins THEN OldTree ELSE <<>>])

\* Every command line of CommandLines, over a checkout with and without a
\* patches directory and a patch in it, with and without a subdirectory in
\* the artifact directory.
InitArgv ==
    \E plat \in Platforms, av \in CommandLines, pe \in BOOLEAN,
       dir \in SUBSET BaseFs.patchEntries, ad \in SUBSET {OldDir} :
        /\ ~pe => dir = {}
        /\ Start(plat, av, StdVcvars, TRUE, <<FatExe>>,
                 [BaseFs EXCEPT !.patchesExists = pe, !.patchEntries = dir,
                                !.artifactDirs = ad])

\* Every output of the compiler environment script, on Windows.
InitVcvars ==
    \E out \in VcvarsOutputs, pr \in BOOLEAN :
        Start("win32", Argv(TRUE, TRUE, pr, FALSE), out, TRUE, <<FatExe>>, BaseFs)

Init ==
    InitWorkspace \/ InitPatches \/ InitSign \/ InitFlags \/ InitArgv \/ InitVcvars

-----------------------------------------------------------------------------
(* Helpers of the actions.                                                 *)

\* One entry of log: an external command, a read of standard input or a
\* file system change, with what it was about and how it ended.
Ev(op, arg, opt, rc) == [op |-> op, arg |-> arg, opt |-> opt, rc |-> rc]

\* sys.exit(code), or an uncaught exception (which ends Python with status 1).
Exit(code) ==
    /\ pc' = "exit"
    /\ exitCode' = code

Goto(label) ==
    /\ pc' = label
    /\ UNCHANGED exitCode

\* The statuses an external command may return.
Status == {0, 1}

\* remove_dir: on Windows the status of "rmdir /S /Q" decides whether the
\* directory is gone and nobody reads it; elsewhere shutil.rmtree removes it.
RemoveStatuses(plat) == IF plat = "win32" THEN Status ELSE {0}

Removed(plat, rc) == plat # "win32" \/ rc = 0

RemoveEv(plat, which, rc) ==
    Ev(IF plat = "win32" THEN "rmdir" ELSE "rmtree", <<>>, which, rc)

\* A script that takes an upper-case answer too.
AcceptsAnyCase(ans) == ans \in {"y", "Y"}

\* input(...) != "y"
Accepts(ans) == ans = "y"

\* Line 150: the initial confirmation is read only when prompting is on.
AsksConfirm(a) == a.prompt

\* A script that asks about the overwrite under --no-prompt too.
AsksOverwriteAlways(a, f) == f.install

\* A script that takes the initial confirmation to cover the overwrite.
AsksOverwriteNever(a, f) == FALSE

\* Lines 168-169: so is the overwrite confirmation, and only when the install
\* path exists.
AsksOverwrite(a, f) == f.install /\ a.prompt

\* A script that ignores the status of its commands.
OkIgnored(rc) == TRUE

\* The test "subprocess.call(...) != 0" of lines 179, 184, 190, 218, 228 and
\* 234, negated.
Ok(rc) == rc = 0

\* The filter of line 143.
IsPatch(name) == Suffix(name) = <<".", "p", "a", "t", "c", "h">>

RECURSIVE SelectPatches(_)
SelectPatches(s) ==
    IF s = <<>> THEN <<>>
    ELSE (IF IsPatch(Head(s)) THEN <<Head(s)>> ELSE <<>>) \o SelectPatches(Tail(s))

\* Lines 141-145: the patch entries of the directory, sorted.
DiscoverPatches(plat, entries) == SelectPatches(Sorted(plat, entries))

-----------------------------------------------------------------------------
(* Lines 73-87: the command line.                                          *)

\* The tokens of the model that start with "-".
OptionStrings ==
    {"--no-clone", "--no-clean", "--no-prompt", "--no-install", "--patch",
     "--universal", "--sign", "--no-sign"}

\* parser.parse_args: each flag sets its destination, --patch appends the
\* token that follows it, which must be there and be no option; a token the
\* parser does not know is an error.
RECURSIVE parse_args(_, _)
parse_args(toks, ns) ==
    IF toks = <<>> THEN [ok |-> TRUE, ns |-> ns]
    ELSE LET tok == Head(toks)
             rest == Tail(toks)
         IN  CASE tok = "--no-clone" -> parse_args(rest, [ns EXCEPT !.no_clone = TRUE])
               [] tok = "--no-clean" -> parse_args(rest, [ns EXCEPT !.clean = FALSE])
               [] tok = "--no-prompt" -> parse_args(rest, [ns EXCEPT !.prompt = FALSE])
               [] tok = "--no-install" -> parse_args(rest, [ns EXCEPT !.install = FALSE])
               [] tok = "--universal" -> parse_args(rest, [ns EXCEPT !.universal = TRUE])
               [] tok = "--sign" -> parse_args(rest, [ns EXCEPT !.sign = TRUE])
               [] tok = "--patch" ->
                     IF rest # <<>> /\ Head(rest) \notin OptionStrings
                     THEN parse_args(Tail(rest), [ns EXCEPT !.patch = Append(@, Head(rest))])
                     ELSE [ok |-> FALSE, ns |-> ns]
               [] OTHER -> [ok |-> FALSE, ns |-> ns]

(* Line 87: argparse ends the process with status 2 on a command line it   *)
(* does not accept.                                                        *)
ParseArgs ==
    /\ pc = "parse"
    /\ LET r == parse_args(argv, Defaults)
       IN  IF r.ok
           THEN args' = r.ns /\ Goto("probe")
           ELSE UNCHANGED args /\ Exit(2)
    /\ UNCHANGED <<platform, argv, vcvars, environ, home, product, fs, fs0,
                   patches, pi, wi, log>>

-----------------------------------------------------------------------------
(* Lines 89-105: the compiler environment, on Windows.                     *)

IsPrefix(p, s) == Len(p) <= Len(s) /\ SubSeq(s, 1, Len(p)) = p

\* bytes.split(sep): cur is the piece being read.
RECURSIVE Split(_, _, _)
Split(s, sep, cur) ==
    IF s = <<>> THEN <<cur>>
    ELSE IF IsPrefix(sep, s)
         THEN <<cur>> \o Split(SubSeq(s, Len(sep) + 1, Len(s)), sep, <<>>)
    ELSE Split(Tail(s), sep, Append(cur, Head(s)))

\* sep.join(parts)
RECURSIVE Join(_, _)
Join(parts, sep) ==
    IF parts = <<>> THEN <<>>
    ELSE IF Len(parts) = 1 THEN parts[1]
    ELSE parts[1] \o sep \o Join(Tail(parts), sep)

Whitespace == {" ", "\t", "\r", "\n"}

\* bytes.strip()
RECURSIVE Strip(_)
Strip(s) ==
    IF s # <<>> /\ Head(s) \in Whitespace THEN Strip(Tail(s))
    ELSE IF s # <<>> /\ s[Len(s)] \in Whitespace THEN Strip(SubSeq(s, 1, Len(s) - 1))
    ELSE s

\* str.upper() on one character of the model's variable names.
Upper(c) == IF c = "p" THEN "P" ELSE c

\* os.environ[key] = value on Windows: names are kept in upper case, and a
\* later assignment replaces an earlier one.
PutEnv(env, key, value) ==
    LET k == [i \in DOMAIN key |-> Upper(key[i])]
    IN  {kv \in env : kv[1] # k} \cup {<<k, value>>}

\* Line 104: the value is what follows the first "=": the remaining parts,
\* joined again.
ValueOf(rest) == Join(rest, <<"=">>)

\* Lines 98-105: the loop over the lines.  os.environ raises on an empty
\* name, which ends the import (ok is then FALSE).
RECURSIVE ImportLines(_, _)
ImportLines(env, lines) ==
    IF lines = <<>> THEN [ok |-> TRUE, env |-> env]
    ELSE LET line == Strip(Head(lines))
             parts == Split(line, <<"=">>, <<>>)
         IN  IF \A i \in DOMAIN line : line[i] # "="
             THEN ImportLines(env, Tail(lines))
             ELSE IF parts[1] = <<>>
                  THEN [ok |-> FALSE, env |-> env]
                  ELSE ImportLines(PutEnv(env, parts[1], ValueOf(Tail(parts))),
                                   Tail(lines))

ImportVcvars(env, out) == ImportLines(env, Split(out, <<"\r", "\n">>, <<>>))

(* Lines 89-122: the platform's toolchain.  On Windows vcvars64.bat runs   *)
(* under check_output, which raises when it fails, and its output is       *)
(* merged into os.environ; on macOS xcode-select runs, the same way, when  *)
(* the CommandLineTools SDK is not installed.                              *)

Probe ==
    /\ pc = "probe"
    /\ \/ /\ platform = "win32"
          /\ \E rc \in Status :
                /\ log' = Append(log, Ev("vcvars", <<>>, "", rc))
                /\ IF rc # 0
                   THEN UNCHANGED environ /\ Exit(1)
                   ELSE LET r == ImportVcvars(environ, vcvars)
                        IN  /\ environ' = r.env
                            /\ IF r.ok THEN Goto("discover") ELSE Exit(1)
       \/ /\ platform = "darwin"
          /\ \E clt \in BOOLEAN, rc \in Status :
                IF clt
                THEN Goto("discover") /\ UNCHANGED log
                ELSE /\ log' = Append(log, Ev("xcode-select", <<>>, "", rc))
                     /\ IF rc = 0 THEN Goto("discover") ELSE Exit(1)
          /\ UNCHANGED environ
       \/ /\ platform = "linux"
          /\ Goto("discover")
          /\ UNCHANGED <<log, environ>>
    /\ UNCHANGED <<platform, argv, vcvars, args, home, product, fs, fs0,
                   patches, pi, wi>>

(* Lines 141-148: iterdir raises when patches/ does not exist.             *)
Discover ==
    /\ pc = "discover"
    /\ IF fs.patchesExists
       THEN /\ patches' = DiscoverPatches(platform, fs.patchEntries)
            /\ Goto("confirm")
       ELSE /\ UNCHANGED patches
            /\ Exit(1)
    /\ UNCHANGED <<platform, argv, vcvars, args, environ, home, product,
                   fs, fs0, pi, wi, log>>

(* Lines 150-152.                                                          *)
Confirm ==
    /\ pc = "confirm"
    /\ IF AsksConfirm(args)
       THEN \E ans \in Answers :
                /\ log' = Append(log, Ev("input:confirm", <<>>, ans, 0))
                /\ IF Accepts(ans) THEN Goto("cleanup") ELSE Exit(1)
       ELSE Goto("cleanup") /\ UNCHANGED log
    /\ UNCHANGED <<platform, argv, vcvars, args, environ, home, product,
                   fs, fs0, patches, pi, wi>>

(* Lines 154-166.  Path.unlink raises on a directory, so a subdirectory of *)
(* the artifact directory ends the run after some of the files are gone.   *)
Cleanup ==
    /\ pc = "cleanup"
    /\ IF ~args.clean
       THEN /\ fs' = [fs EXCEPT !.artifactExists = TRUE]
            /\ Goto("overwrite")
            /\ UNCHANGED log
       ELSE IF fs.artifactDirs # {}
       THEN \E gone \in SUBSET fs.artifactFiles :
                /\ fs' = [fs EXCEPT !.artifactExists = TRUE,
                                    !.artifactFiles = @ \ gone,
                                    !.zip = IF ZipName \in gone THEN <<>> ELSE @]
                /\ Exit(1)
                /\ UNCHANGED log
       ELSE \E rc \in RemoveStatuses(platform) :
                /\ fs' = [fs EXCEPT !.artifactExists = TRUE,
                                    !.artifactFiles = {},
                                    !.zip = <<>>,
                                    !.build = @ /\ ~Removed(platform, rc),
                                    !.cache = FALSE]
                /\ log' = IF fs.build
                          THEN Append(log, RemoveEv(platform, "build", rc))
                          ELSE log
                /\ Goto("overwrite")
    /\ UNCHANGED <<platform, argv, vcvars, args, environ, home, product,
                   fs0, patches, pi, wi>>

\* Line 173.
AfterOverwrite(a) == IF a.no_clone THEN "configure" ELSE "clone"

(* Lines 168-171.                                                          *)
Overwrite ==
    /\ pc = "overwrite"
    /\ IF AsksOverwrite(args, fs)
       THEN \E ans \in Answers :
                /\ log' = Append(log, Ev("input:overwrite", <<>>, ans, 0))
                /\ IF Accepts(ans) THEN Goto(AfterOverwrite(args)) ELSE Exit(1)
       ELSE Goto(AfterOverwrite(args)) /\ UNCHANGED log
    /\ UNCHANGED <<platform, argv, vcvars, args, environ, home, product,
                   fs, fs0, patches, pi, wi>>

\* Where the patch loop of line 188 stands once n patches are applied.
AfterPatches(n, ps) == IF n < Len(ps) THEN "patch" ELSE "configure"

(* Lines 173-183: build/ is made, a stale source tree is removed and the   *)
(* pinned tag is cloned.  git refuses to clone into a tree that is still   *)
(* there.                                                                  *)
Clone ==
    /\ pc = "clone"
    /\ \E rm \in RemoveStatuses(platform), rc \in Status :
          LET stale == fs.source /\ ~Removed(platform, rm)
              rmLog == IF fs.source
                       THEN Append(log, RemoveEv(platform, "source", rm))
                       ELSE log
          IN  /\ stale => rc # 0
              /\ log' = Append(rmLog, Ev("git clone", <<>>, "", rc))
              /\ fs' = [fs EXCEPT !.yasmDir = TRUE,
                                  !.source = stale \/ rc = 0,
                                  !.srcPatches = IF stale THEN @ ELSE <<>>,
                                  !.build = @ /\ stale]
              /\ IF Ok(rc) THEN Goto("checkout") ELSE Exit(1)
    /\ UNCHANGED <<platform, argv, vcvars, args, environ, home, product,
                   fs0, patches, pi, wi>>

(* Lines 184-186.                                                          *)
Checkout ==
    /\ pc = "checkout"
    /\ \E rc \in Status :
          /\ log' = Append(log, Ev("git checkout", <<>>, "", rc))
          /\ IF Ok(rc) THEN Goto(AfterPatches(0, patches)) ELSE Exit(1)
    /\ UNCHANGED <<platform, argv, vcvars, args, environ, home, product,
                   fs, fs0, patches, pi, wi>>

(* Lines 188-192: one turn of the loop.                                    *)
ApplyPatch ==
    /\ pc = "patch"
    /\ pi < Len(patches)
    /\ \E rc \in Status :
          /\ log' = Append(log, Ev("git apply", patches[pi + 1], "", rc))
          /\ IF Ok(rc)
             THEN /\ pi' = pi + 1
                  /\ fs' = [fs EXCEPT !.srcPatches = Append(@, patches[pi + 1])]
                  /\ Goto(AfterPatches(pi + 1, patches))
             ELSE /\ UNCHANGED <<pi, fs>>
                  /\ Exit(1)
    /\ UNCHANGED <<platform, argv, vcvars, args, environ, home, product,
                   fs0, patches, wi>>

(* Lines 194-221: build_path.mkdir() raises when the source path is not    *)
(* there; then cmake runs in the build path.                               *)
Configure ==
    /\ pc = "configure"
    /\ IF ~fs.build /\ ~fs.source
       THEN Exit(1) /\ UNCHANGED <<fs, log>>
       ELSE \E rc \in Status :
                /\ fs' = [fs EXCEPT !.build = TRUE]
                /\ log' = Append(log, Ev("cmake", <<>>, "", rc))
                /\ IF Ok(rc) THEN Goto("reset") ELSE Exit(1)
    /\ UNCHANGED <<platform, argv, vcvars, args, environ, home, product,
                   fs0, patches, pi, wi>>

\* A script that leaves in place what an earlier run installed.
FreshInstallKeepsFiles(tree) == tree

\* Lines 225-226: what the install path holds once it is removed and made
\* again.
FreshInstall(tree) == <<>>

(* Lines 224-226: the install path is removed and made again; mkdir raises *)
(* when it is still there.                                                 *)
ResetInstall ==
    /\ pc = "reset"
    /\ \E rm \in RemoveStatuses(platform) :
          LET kept == fs.install /\ ~Removed(platform, rm)
          IN  /\ log' = IF fs.install
                        THEN Append(log, RemoveEv(platform, "install", rm))
                        ELSE log
              /\ IF kept
                 THEN UNCHANGED fs /\ Exit(1)
                 ELSE /\ fs' = [fs EXCEPT !.yasmDir = TRUE, !.install = TRUE,
                                          !.tree = FreshInstall(@)]
                      /\ Goto("build")
    /\ UNCHANGED <<platform, argv, vcvars, args, environ, home, product,
                   fs0, patches, pi, wi>>

(* Lines 228-230.                                                          *)
Build ==
    /\ pc = "build"
    /\ \E rc \in Status :
          /\ log' = Append(log, Ev("ninja", <<>>, "", rc))
          /\ IF Ok(rc) THEN Goto("install") ELSE Exit(1)
    /\ UNCHANGED <<platform, argv, vcvars, args, environ, home, product,
                   fs, fs0, patches, pi, wi>>

\* Lines 239, 240 and 255: whether a signing walk follows the install.
Signs(plat, a) == a.sign /\ plat \in {"darwin", "win32"}

\* Where the walk stands once n files of the tree are visited.
AfterSigned(n, tree) == IF n < Len(tree) THEN "sign" ELSE "package"

\* A script that removes the sources before it packages.
AfterInstallTeardownFirst(plat, a, tree) ==
    IF a.clean THEN "teardown"
    ELSE IF Signs(plat, a) THEN AfterSigned(0, tree) ELSE "package"

AfterInstall(plat, a, tree) ==
    IF Signs(plat, a) THEN AfterSigned(0, tree) ELSE "package"

(* Lines 233-236: a successful install writes the product into the install *)
(* path; a failed one may have written some of it.                         *)
Install ==
    /\ pc = "install"
    /\ \E rc \in Status, n \in 0..Len(product) :
          /\ rc = 0 => n = Len(product)
          /\ fs' = [fs EXCEPT !.tree = SubSeq(product, 1, n)]
          /\ log' = Append(log, Ev("ninja install", <<>>, "", rc))
          /\ IF Ok(rc)
             THEN Goto(AfterInstall(platform, args, product))
             ELSE Exit(1)
    /\ UNCHANGED <<platform, argv, vcvars, args, environ, home, product,
                   fs0, patches, pi, wi>>

-----------------------------------------------------------------------------
(* Signing.                                                                *)

\* The path of a file of the install tree, below the install path.
PathOf(f) == <<f.dir, f.file>>

\* os.access(file_path, os.X_OK): the permission bit on POSIX; on Windows
\* every file that exists passes.
CanExec(plat, f) == plat = "win32" \/ f.x

\* Line 249: the first four bytes against b"\xca\xfe\xba\xbe".
HasMagic(f) == f.magic = FAT_MAGIC

\* A walk that signs whatever is executable.
MacQualifiesAnyExecutable(plat, f) == CanExec(plat, f)

\* Lines 245-250: the files the macOS walk hands to mac_sign.
MacQualifies(plat, f) == CanExec(plat, f) /\ HasMagic(f)

\* fnmatch on one path component: "?" is any character, "*" any run of
\* characters.  (No name of the model holds a character class.)
RECURSIVE FnMatch(_, _)
FnMatch(pat, s) ==
    IF pat = <<>> THEN s = <<>>
    ELSE IF Head(pat) = "*"
         THEN FnMatch(Tail(pat), s) \/ (s # <<>> /\ FnMatch(pat, Tail(s)))
    ELSE /\ s # <<>>
         /\ Head(pat) = "?" \/ Head(pat) = Head(s)
         /\ FnMatch(Tail(pat), Tail(s))

RECURSIVE SelectMatches(_, _)
SelectMatches(path, tree) ==
    IF tree = <<>> THEN <<>>
    ELSE (IF FnMatch(path[1], Head(tree).dir) /\ FnMatch(path[2], Head(tree).file)
          THEN <<PathOf(Head(tree))>> ELSE <<>>) \o SelectMatches(path, Tail(tree))

\* glob.glob(path) at line 50: the paths of the tree the pattern matches.
Glob(path, tree) == SelectMatches(path, tree)

\* An unlocker that does not look at the helper's status.
UnlockedWhenPresent(h, rc) == h

\* keychain_unlocker, lines 30-34: the helper runs when it exists, and only
\* its status 0 unlocks.
Unlocked(h, rc) == h /\ rc = 0

\* The statuses the helper may give: it does not run when it is missing.
UnlockStatuses(h) == IF h THEN Status ELSE {1}

(* Lines 242-254: one file of the macOS walk.                              *)
SignMac ==
    /\ pc = "sign"
    /\ platform = "darwin"
    /\ wi < Len(fs.tree)
    /\ LET f == fs.tree[wi + 1]
       IN  IF ~MacQualifies(platform, f)
           THEN /\ wi' = wi + 1
                /\ Goto(AfterSigned(wi + 1, fs.tree))
                /\ UNCHANGED log
           ELSE \E ru \in UnlockStatuses(home), rc \in Status :
                    LET ulog == IF home
                                THEN Append(log, Ev("unlock-keychain", <<>>, "", ru))
                                ELSE log
                    IN  IF ~Unlocked(home, ru)
                        THEN /\ log' = ulog
                             /\ UNCHANGED wi
                             /\ Exit(1)
                        ELSE /\ log' = Append(ulog,
                                        Ev("codesign", Glob(PathOf(f), fs.tree), "", rc))
                             /\ IF rc = 0
                                THEN /\ wi' = wi + 1
                                     /\ Goto(AfterSigned(wi + 1, fs.tree))
                                ELSE /\ UNCHANGED wi
                                     /\ Exit(1)
    /\ UNCHANGED <<platform, argv, vcvars, args, environ, home, product,
                   fs, fs0, patches, pi>>

\* Line 259.
WinQualifies(f) ==
    \/ EndsWith(f.file, <<".", "e", "x", "e">>)
    \/ EndsWith(f.file, <<".", "d", "l", "l">>)

\* A loop without the return of line 65: every server is tried.
TriedAll(out) == Len(out)

\* signWindowsFiles, lines 59-65: the servers tried, given the status each
\* would return: all up to the first that returns 0.
Tried(out) ==
    IF \E i \in DOMAIN out : out[i] = 0
    THEN CHOOSE i \in DOMAIN out : out[i] = 0 /\ \A j \in 1..(i - 1) : out[j] # 0
    ELSE Len(out)

\* signWindowsFiles's return value.
WinSigned(out) == \E i \in 1..Tried(out) : out[i] = 0

(* Lines 257-263: one file of the Windows walk.                            *)
SignWin ==
    /\ pc = "sign"
    /\ platform = "win32"
    /\ wi < Len(fs.tree)
    /\ LET f == fs.tree[wi + 1]
       IN  IF ~WinQualifies(f)
           THEN /\ wi' = wi + 1
                /\ Goto(AfterSigned(wi + 1, fs.tree))
                /\ UNCHANGED log
           ELSE \E out \in [1..Len(timeServers) -> Status] :
                    /\ log' = log
                          \o [i \in 1..Tried(out) |->
                                Ev("signtool", PathOf(f), timeServers[i], out[i])]
                          \o <<Ev("print", PathOf(f),
                                  IF WinSigned(out) THEN "Signed" ELSE "Failed to sign file",
                                  0)>>
                    /\ IF WinSigned(out)
                       THEN /\ wi' = wi + 1
                            /\ Goto(AfterSigned(wi + 1, fs.tree))
                       ELSE /\ UNCHANGED wi
                            /\ Exit(1)
    /\ UNCHANGED <<platform, argv, vcvars, args, environ, home, product,
                   fs, fs0, patches, pi>>

-----------------------------------------------------------------------------
(* Packaging and teardown.                                                 *)

\* An archiver that drops the directory of a file.
ArcNameFlat(f) == <<"y", "a", "s", "m", "/">> \o yasm_version \o <<"/">> \o f.file

\* Lines 268-273: "yasm", the version, the directory below the install path
\* and the file name, joined.
ArcName(f) ==
    <<"y", "a", "s", "m", "/">> \o yasm_version \o <<"/">>
        \o (IF f.dir = <<>> THEN <<>> ELSE f.dir \o <<"/">>) \o f.file

\* An archiver that marks every entry executable.
ArcModeAlwaysExec(plat, f) == MODE_EXEC

\* Lines 277-280.
ArcMode(plat, f) == IF CanExec(plat, f) THEN MODE_EXEC ELSE MODE_REGULAR

\* Lines 266-283: one entry for each file of the walk.
Archive(plat, tree) ==
    [i \in 1..Len(tree) |-> [name |-> ArcName(tree[i]), mode |-> ArcMode(plat, tree[i])]]

\* Line 285.
AfterPackage(a) == IF a.clean THEN "teardown" ELSE "exit"

(* Lines 265-283.                                                          *)
Package ==
    /\ pc = "package"
    /\ fs' = [fs EXCEPT !.artifactFiles = @ \cup {ZipName},
                        !.zip = Archive(platform, fs.tree)]
    /\ log' = Append(log, Ev("zip", <<>>, "", 0))
    /\ pc' = AfterPackage(args)
    /\ exitCode' = 0
    /\ UNCHANGED <<platform, argv, vcvars, args, environ, home, product,
                   fs0, patches, pi, wi>>

(* Lines 285-287, and the end of the script.                               *)
Teardown ==
    /\ pc = "teardown"
    /\ \E rm \in RemoveStatuses(platform) :
          /\ log' = Append(log, RemoveEv(platform, "source", rm))
          /\ fs' = [fs EXCEPT !.source = ~Removed(platform, rm),
                              !.build = @ /\ ~Removed(platform, rm),
                              !.srcPatches = IF Removed(platform, rm) THEN <<>> ELSE @]
    /\ Exit(0)
    /\ UNCHANGED <<platform, argv, vcvars, args, environ, home, product,
                   fs0, patches, pi, wi>>

Next ==
    \/ ParseArgs
    \/ Probe \/ Discover \/ Confirm \/ Cleanup \/ Overwrite
    \/ Clone \/ Checkout \/ ApplyPatch \/ Configure \/ ResetInstall
    \/ Build \/ Install \/ SignMac \/ SignWin \/ Package \/ Teardown

Spec == Init /\ [][Next]_vars

-----------------------------------------------------------------------------
(* What the claims speak of.                                               *)

\* The positions of log that hold an event of one of the operations S.
At(S) == {i \in DOMAIN log : log[i].op \in S}

Failed(i) == log[i].rc # 0

GitOps == {"git clone", "git checkout", "git apply"}
FailFastOps == GitOps \cup {"cmake", "ninja", "ninja install"}
SigningOps == {"codesign", "signtool"}
RemoveOps == {"rmdir", "rmtree"}

\* The removals of the source path.
SourceRemovals == {i \in At(RemoveOps) : log[i].opt = "source"}

\* The removal that makes room for the clone (line 178): the only one in a
\* cloning run that no clone precedes.
ReplacesStaleTree(i) ==
    /\ ~args.no_clone
    /\ \A j \in At({"git clone"}) : i < j

\* The removals of the tree this run configures and builds.
TeardownRemovals == {i \in SourceRemovals : ~ReplacesStaleTree(i)}

ArchiveWritten == At({"zip"}) # {}

\* The stages in the order of the script.
PcRank(p) ==
    CASE p = "parse" -> 0
      [] p = "probe" -> 1 [] p = "discover" -> 2 [] p = "confirm" -> 3
      [] p = "cleanup" -> 4 [] p = "overwrite" -> 5
      [] p = "clone" -> 6 [] p = "checkout" -> 7 [] p = "patch" -> 8
      [] p = "configure" -> 9 [] p = "reset" -> 10 [] p = "build" -> 11
      [] p = "install" -> 12 [] p = "sign" -> 13 [] p = "package" -> 14
      [] p = "teardown" -> 15 [] p = "exit" -> 16

\* The stage an event belongs to: 1 preflight, 2 cleanup, 3 acquisition,
\* 4 configure, 5 build, 6 install, 7 signing, 8 packaging, 9 teardown.
EvStage(i) ==
    LET e == log[i]
    IN  CASE e.op \in {"vcvars", "xcode-select", "input:confirm"} -> 1
          [] e.op \in RemoveOps /\ e.opt = "build" -> 2
          [] e.op = "input:overwrite" -> 2
          [] e.op \in GitOps -> 3
          [] e.op \in RemoveOps /\ e.opt = "source" ->
                IF i \in TeardownRemovals THEN 9 ELSE 3
          [] e.op = "cmake" -> 4
          [] e.op \in RemoveOps /\ e.opt = "install" -> 5
          [] e.op = "ninja" -> 5
          [] e.op = "ninja install" -> 6
          [] e.op \in {"unlock-keychain", "codesign", "signtool", "print"} -> 7
          [] e.op = "zip" -> 8

C1_LogOrder ==
    \* the events follow the order of the stages
    /\ \A i, j \in DOMAIN log : i < j => EvStage(i) <= EvStage(j)
    \* each single-shot step runs at most once
    /\ \A op \in {"input:confirm", "input:overwrite", "git clone", "git checkout",
                  "cmake", "ninja", "ninja install", "zip"} :
          Cardinality(At({op})) <= 1
    /\ Cardinality(TeardownRemovals) <= 1
    \* no git command before cleanup has finished
    /\ (args.clean /\ At(GitOps) # {}) =>
          /\ ~fs.cache
          /\ fs.artifactFiles \subseteq {ZipName}
          /\ \A i \in At(RemoveOps) : log[i].opt = "build" =>
                \A j \in At(GitOps) : i < j
    \* no patch after configure has started
    /\ \A i \in At({"cmake"}), j \in At({"git apply"}) : j < i
    \* no signing before the install has succeeded
    /\ \A i \in At(SigningOps) :
          \E j \in At({"ninja install"}) : j < i /\ ~Failed(j)
    \* the archive only after every signing invocation
    /\ \A i \in At({"zip"}), j \in At(SigningOps) : j < i
    \* the run's source tree is removed only after the archive is written
    /\ \A i \in TeardownRemovals : \E j \in At({"zip"}) : j < i

(* C1: every step moves the script to a later stage (the patch loop and    *)
(* the signing walk stay where they are while they run), so the stages run *)
(* in the fixed order and each at most once; and in the history no git     *)
(* command precedes the end of cleanup, no patch follows configure, no     *)
(* signing precedes a successful install, the archive follows every        *)
(* signing invocation and the removal of the run's source tree follows the *)
(* archive.                                                                *)
C1_StageOrder ==
    /\ [][\/ PcRank(pc') > PcRank(pc)
          \/ pc' = pc /\ pc \in {"patch", "sign"}]_vars
    /\ []C1_LogOrder

\* A complete run: cloned, patched, signed, packaged and torn down.
C1_Witness ==
    /\ pc = "exit" /\ exitCode = 0
    /\ At({"git apply"}) # {}
    /\ At(SigningOps) # {}
    /\ ArchiveWritten
    /\ TeardownRemovals # {}

(* C2: a failed git clone, git checkout, git apply, cmake, ninja or ninja  *)
(* install is the last thing the run does: it has then exited non-zero,    *)
(* nothing was invoked after it, no archive was written by this run and    *)
(* the source tree was not torn down.                                      *)
C2_FailFast ==
    \A i \in At(FailFastOps) :
        Failed(i) =>
            /\ i = Len(log)
            /\ pc = "exit" /\ exitCode # 0
            /\ ~ArchiveWritten
            /\ ZipName \in fs.artifactFiles =>
                  ZipName \in fs0.artifactFiles /\ fs.zip = fs0.zip
            /\ TeardownRemovals = {}
            /\ log[i].op # "git clone" => fs.source

\* The second patch fails to apply after the first one applied.
C2_Witness ==
    /\ Len(log) >= 2
    /\ log[Len(log)].op = "git apply" /\ Failed(Len(log))
    /\ log[Len(log) - 1].op = "git apply" /\ ~Failed(Len(log) - 1)
    /\ pc = "exit"

\* The commands and changes that follow the two confirmations.
WorkOps ==
    FailFastOps \cup RemoveOps \cup {"unlock-keychain", "codesign", "signtool", "zip"}

(* C3: once the initial confirmation is answered with anything but "y",    *)
(* the run has exited non-zero, the file system is as it was when the run  *)
(* started and no git, cmake, ninja, signing or removal command was run.   *)
C3_DeclineHasNoEffect ==
    \A i \in At({"input:confirm"}) :
        log[i].opt # "y" =>
            /\ pc = "exit" /\ exitCode # 0
            /\ fs = fs0
            /\ At(WorkOps) = {}
            /\ i = Len(log)

\* "Y" is declined in a workspace that cleanup would have changed.
C3_Witness ==
    /\ args.prompt /\ args.clean
    /\ fs0.cache /\ fs0.build /\ fs0.artifactFiles # {}
    /\ At({"input:confirm"}) # {}
    /\ log[Len(log)].opt = "Y"
    /\ pc = "exit"

(* C4: under --no-prompt the run never reads standard input, neither for   *)
(* the initial confirmation nor for the overwrite check.                   *)
C4_NoPromptNeverReads ==
    ~args.prompt => At({"input:confirm", "input:overwrite"}) = {}

\* A --no-prompt run over an existing install that ran to its end.
C4_Witness ==
    /\ ~args.prompt
    /\ fs0.install
    /\ pc = "exit" /\ exitCode = 0
    /\ fs.tree # fs0.tree

\* The run is past the overwrite check of lines 168-171.
PastOverwrite ==
    \/ PcRank(pc) \in 6..15
    \/ At(WorkOps \ RemoveOps) # {}
    \/ \E i \in At(RemoveOps) : log[i].opt # "build"

OverwriteAnswers == {log[i].opt : i \in At({"input:overwrite"})}

InstallDeleted ==
    \/ ~fs.install
    \/ fs.tree # fs0.tree
    \/ \E i \in At(RemoveOps) : log[i].opt = "install"

(* C5: with prompting on and an install at the install path, a run that    *)
(* gets past the overwrite check has asked the overwrite confirmation (its *)
(* initial confirmation was "y") and got "y"; an overwrite confirmation    *)
(* answered otherwise ends the run non-zero with the install path as it    *)
(* was; and an existing install is deleted only after a "y" to the         *)
(* overwrite confirmation or under --no-prompt.                            *)
C5_OverwriteConfirmed ==
    /\ (args.prompt /\ fs0.install /\ PastOverwrite) =>
          /\ \E i \in At({"input:confirm"}) : log[i].opt = "y"
          /\ OverwriteAnswers = {"y"}
    /\ \A i \in At({"input:overwrite"}) :
          log[i].opt # "y" =>
              /\ pc = "exit" /\ exitCode # 0
              /\ i = Len(log)
              /\ fs.install /\ fs.tree = fs0.tree
    /\ (fs0.install /\ InstallDeleted) =>
          ~args.prompt \/ "y" \in OverwriteAnswers

\* The overwrite is declined after the initial "y" and after cleanup ran.
C5_Witness ==
    /\ args.clean /\ fs # fs0
    /\ \E i \in At({"input:confirm"}) : log[i].opt = "y"
    /\ \E i \in At({"input:overwrite"}) : log[i].opt = "n"
    /\ fs.tree = OldTree
    /\ pc = "exit"

-----------------------------------------------------------------------------
(* Patches.                                                                *)

\* A file name with the extension ".patch": a non-empty stem, then ".patch".
HasPatchExtension(name) ==
    /\ Len(name) > 6
    /\ \A k \in 1..6 :
          name[Len(name) - 6 + k] = <<".", "p", "a", "t", "c", "h">>[k]

\* The character of a file name as the platform orders it: Windows file
\* names compare without regard to case.
Folded(plat, c) == IF plat = "win32" /\ c = "B" THEN "b" ELSE c

\* Lexicographic order of file names: at the first position where they
\* differ the lesser character decides, and a proper prefix comes first.
FilenameBefore(plat, a, b) ==
    \E k \in 1..(Len(b)) :
        /\ \A m \in 1..(k - 1) :
              m <= Len(a) /\ Folded(plat, a[m]) = Folded(plat, b[m])
        /\ \/ Len(a) = k - 1
           \/ /\ Len(a) >= k
              /\ Ord(Folded(plat, a[k])) < Ord(Folded(plat, b[k]))

PatchEntries == {n \in fs0.patchEntries : HasPatchExtension(n)}

ConfigureStarted == At({"cmake"}) # {} \/ PcRank(pc) \in 10..15

(* C6: in a cloning run the git apply invocations name only entries of the *)
(* patches directory with the extension .patch, in strictly ascending      *)
(* lexicographic order of their file names (so each once), none skipped:   *)
(* every patch entry that sorts before an applied one was applied before   *)
(* it, and successfully; they all follow the successful checkout and       *)
(* precede configure; and once configure has started every patch entry has *)
(* been applied.  (File names compare case-insensitively on Windows.)      *)
C6_PatchesInOrder ==
    ~args.no_clone =>
        /\ \A i \in At({"git apply"}) :
              /\ log[i].arg \in PatchEntries
              /\ \E j \in At({"git checkout"}) : j < i /\ ~Failed(j)
              /\ \A c \in At({"cmake"}) : i < c
              /\ \A n \in PatchEntries :
                    FilenameBefore(platform, n, log[i].arg) =>
                        \E j \in At({"git apply"}) :
                            j < i /\ log[j].arg = n /\ ~Failed(j)
        /\ \A i, j \in At({"git apply"}) :
              i < j => FilenameBefore(platform, log[i].arg, log[j].arg)
        /\ ConfigureStarted =>
              \A n \in PatchEntries :
                  \E i \in At({"git apply"}) : log[i].arg = n /\ ~Failed(i)

\* Two or more patches were applied from a directory that also holds an entry
\* that is no patch, and configure has run.
C6_Witness ==
    /\ ~args.no_clone
    /\ Cardinality(At({"git apply"})) >= 2
    /\ fs0.patchEntries \ PatchEntries # {}
    /\ At({"cmake"}) # {}

-----------------------------------------------------------------------------
(* Signing.                                                                *)

\* How many signtool invocations for the file of event i the history holds
\* up to and including i.
AttemptNo(i) ==
    Cardinality({j \in At({"signtool"}) : j <= i /\ log[j].arg = log[i].arg})

(* C7: the k-th signing attempt for a file goes to the k-th timestamp      *)
(* server; an attempt after the first directly follows a failed attempt    *)
(* for the same file; after a successful attempt the file is reported      *)
(* signed and no server is tried for it again; after a failed attempt the  *)
(* next server is tried, and when the last server failed the file is       *)
(* reported unsigned and the run has ended non-zero with nothing signed    *)
(* or packaged after it.                                                   *)
C7_ServersInOrder ==
    /\ \A i \in At({"signtool"}) :
          LET k == AttemptNo(i)
          IN  /\ k <= Len(timeServers)
              /\ log[i].opt = timeServers[k]
              /\ k > 1 =>
                    /\ log[i - 1].op = "signtool"
                    /\ log[i - 1].arg = log[i].arg
                    /\ Failed(i - 1)
              /\ i < Len(log)
              /\ ~Failed(i) =>
                    /\ log[i + 1] = Ev("print", log[i].arg, "Signed", 0)
                    /\ \A j \in At({"signtool"}) : j > i => log[j].arg # log[i].arg
              /\ (Failed(i) /\ k < Len(timeServers)) =>
                    /\ log[i + 1].op = "signtool"
                    /\ log[i + 1].arg = log[i].arg
              /\ (Failed(i) /\ k = Len(timeServers)) =>
                    /\ log[i + 1] = Ev("print", log[i].arg, "Failed to sign file", 0)
                    /\ i + 1 = Len(log)
                    /\ pc = "exit" /\ exitCode # 0
                    /\ ~ArchiveWritten
    /\ \A i \in At({"print"}) :
          /\ i > 1
          /\ log[i - 1].op = "signtool" /\ log[i - 1].arg = log[i].arg
          /\ log[i].opt = "Signed" <=> ~Failed(i - 1)

\* A file was signed by the second server after the first one failed, and
\* the run went on to package.
C7_Witness ==
    /\ ArchiveWritten
    /\ \E i \in At({"signtool"}) :
          /\ log[i].opt = timeServers[1] /\ Failed(i)
          /\ log[i + 1].op = "signtool" /\ log[i + 1].opt = timeServers[2]
          /\ ~Failed(i + 1)
          /\ log[i + 2].opt = "Signed"

\* The first four bytes of a Mach-O file: universal (fat) in either byte
\* order, and thin 32-bit and 64-bit in either byte order.
MachOMagics ==
    { <<202, 254, 186, 190>>, <<190, 186, 254, 202>>,
      <<254, 237, 250, 206>>, <<206, 250, 237, 254>>,
      <<254, 237, 250, 207>>, <<207, 250, 237, 254>> }

TreeFiles == {fs.tree[k] : k \in DOMAIN fs.tree}

\* The files a codesign invocation was given.
SignedPaths(i) == {log[i].arg[k] : k \in DOMAIN log[i].arg}

C9_EveryMachOSigned ==
    (platform = "darwin" /\ args.sign /\ ArchiveWritten) =>
        \A f \in TreeFiles :
            (f.x /\ f.magic \in MachOMagics) =>
                \E i \in At({"codesign"}) :
                    /\ <<f.dir, f.file>> \in SignedPaths(i)
                    /\ ~Failed(i)
                    /\ \A z \in At({"zip"}) : i < z

\* The files the walk of lines 242-254 signs: executable, with the fat magic.
FatExecutables == {f \in TreeFiles : f.x /\ f.magic = <<202, 254, 186, 190>>}

InstallSucceeded == \E i \in At({"ninja install"}) : ~Failed(i)

(* C10 as stated: on macOS with --sign, every codesign invocation follows  *)
(* an unlock attempt, and a run whose unlock helper is missing or has      *)
(* failed ends non-zero without any codesign invocation and without an     *)
(* archive, whatever the install tree holds.                               *)
C10_Original ==
    (platform = "darwin" /\ args.sign) =>
        /\ \A i \in At({"codesign"}) : \E j \in At({"unlock-keychain"}) : j < i
        /\ ((~home \/ \E j \in At({"unlock-keychain"}) : Failed(j)) /\ pc = "exit") =>
              /\ exitCode # 0
              /\ At({"codesign"}) = {}
              /\ ~ArchiveWritten

(* C10 as amended: the unlock is attempted inside each call of mac_sign:   *)
(* every codesign invocation directly follows a successful run of the      *)
(* helper, and a successful run of the helper is directly followed by a    *)
(* codesign invocation; a failed run of the helper is the last thing the   *)
(* run does, which then has exited non-zero without an archive; with the   *)
(* helper missing neither the helper nor codesign is ever run, and a run   *)
(* whose install tree holds a file the walk signs ends non-zero without an *)
(* archive, while a run whose tree holds none never consults the helper.   *)
C10_UnlockGuardsEachSigning ==
    (platform = "darwin" /\ args.sign) =>
        /\ \A i \in At({"codesign"}) :
              /\ i > 1
              /\ log[i - 1].op = "unlock-keychain"
              /\ ~Failed(i - 1)
        /\ \A i \in At({"unlock-keychain"}) :
              /\ home
              /\ ~Failed(i) => (i < Len(log) /\ log[i + 1].op = "codesign")
              /\ Failed(i) =>
                    /\ i = Len(log)
                    /\ pc = "exit" /\ exitCode # 0
                    /\ ~ArchiveWritten
        /\ ~home =>
              /\ At({"unlock-keychain", "codesign"}) = {}
              /\ (InstallSucceeded /\ FatExecutables # {}) =>
                    /\ ~ArchiveWritten
                    /\ pc = "exit" => exitCode # 0
        /\ (InstallSucceeded /\ FatExecutables = {}) =>
              At({"unlock-keychain"}) = {}

\* One file was signed and the helper failed for the next one.
C10_Witness ==
    /\ platform = "darwin" /\ args.sign
    /\ At({"codesign"}) # {}
    /\ \E j \in At({"unlock-keychain"}) : Failed(j)
    /\ pc = "exit"

-----------------------------------------------------------------------------
(* The archive.                                                            *)

\* The owner-execute bit of a mode: what a permission-aware extractor gives
\* the extracted file.
OwnerExec(mode) == (mode \div 64) % 2 = 1

\* Whether a file is executable, as the platform answers the process that
\* asks: the execute permission on POSIX; Windows has no such permission and
\* answers yes for every file that exists.
Executable(plat, f) == IF plat = "win32" THEN TRUE ELSE f.x

RelPath(f) == IF f.dir = <<>> THEN f.file ELSE f.dir \o <<"/">> \o f.file

\* yasm/<version>/p
EntryName(p) == <<"y", "a", "s", "m">> \o <<"/">> \o <<"1", ".", "3", ".", "0">> \o <<"/">> \o p

(* C12: once the archive is written it is in the artifact directory and    *)
(* holds exactly one entry for each file of the install tree and no other: *)
(* the file at relative path p is entered once, as yasm/1.3.0/p, no two     *)
(* entries have the same name, and an empty install tree gives an archive   *)
(* without entries in a run that ends with status 0.                        *)
C12_OneEntryPerFile ==
    ArchiveWritten =>
        /\ ZipName \in fs.artifactFiles
        /\ Len(fs.zip) = Len(fs.tree)
        /\ \A f \in TreeFiles :
              Cardinality({i \in DOMAIN fs.zip : fs.zip[i].name = EntryName(RelPath(f))}) = 1
        /\ \A i \in DOMAIN fs.zip :
              \E f \in TreeFiles : fs.zip[i].name = EntryName(RelPath(f))
        /\ \A i, j \in DOMAIN fs.zip : i # j => fs.zip[i].name # fs.zip[j].name
        /\ fs.tree = <<>> => fs.zip = <<>>
        /\ pc = "exit" => exitCode = 0

\* An archive of a file directly in the install path and a file of a
\* subdirectory.
C12_Witness ==
    /\ ArchiveWritten
    /\ pc = "exit"
    /\ \E f, g \in TreeFiles : f.dir = <<>> /\ g.dir # <<>>

-----------------------------------------------------------------------------
(* The install path.                                                       *)

\* The files an earlier run left in the install path.
OldFiles == {fs0.tree[k] : k \in DOMAIN fs0.tree}

(* C13: whenever the run stands at the invocation of the build tool, the   *)
(* install path exists and is empty, whatever it held when the run started *)
(* and with or without --no-clean; and from packaging on the install tree  *)
(* is what the install command of this run wrote, with none of the files   *)
(* of an earlier run in it.                                                *)
C13_InstallPathFresh ==
    /\ pc = "build" => fs.install /\ fs.tree = <<>>
    /\ At({"ninja"}) # {} => fs.install
    /\ (pc = "package" \/ ArchiveWritten) =>
          /\ InstallSucceeded
          /\ fs.tree = product
          /\ TreeFiles \cap OldFiles = {}

\* The build is about to be invoked in a --no-clean run that started with
\* an earlier install in place.
C13_Witness ==
    /\ pc = "build"
    /\ ~args.clean
    /\ fs0.install /\ fs0.tree # <<>>

-----------------------------------------------------------------------------
(* End to end.                                                             *)

\* The archives in the artifact directory.
Archives == {n \in fs.artifactFiles : EndsWith(n, <<".", "z", "i", "p">>)}

\* Every external command of the run returned 0.
AllToolsSucceeded == \A i \in DOMAIN log : log[i].rc = 0

\* Every confirmation the run asked for was given.
AllConfirmed ==
    \A i \in At({"input:confirm", "input:overwrite"}) : log[i].opt = "y"

(* C14: a run started with --no-clone --no-sign (or with --no-clone and no *)
(* signing flag) over a source tree that is in place and a checkout        *)
(* without patch files, whose external commands all succeed, whose install *)
(* writes a file and whose confirmations are given, ends with status 0,    *)
(* with yasm-1.3.0.zip as the one archive of the artifact directory and at *)
(* least one entry in it.                                                  *)
C14_EndToEnd ==
    ( /\ argv \in {<<"--no-clone", "--no-sign">>, <<"--no-clone">>}
      /\ fs0.source
      /\ PatchEntries = {}
      /\ product # <<>>
      /\ AllToolsSucceeded
      /\ AllConfirmed
      /\ pc = "exit" )
    => /\ exitCode = 0
       /\ Archives = {ZipName}
       /\ Len(fs.zip) >= 1

-----------------------------------------------------------------------------
(* Teardown.                                                               *)

(* C15: a run with cleanup enabled that has exited with status 0 has left  *)
(* no source tree behind, whether it cloned the tree or found it in place; *)
(* the tree the run built is removed only after the archive is written;    *)
(* and a run with --no-clean, and a run that has exited non-zero, has not  *)
(* removed the tree it built and, when it did not clone, still has the     *)
(* tree it started with.                                                   *)
C15_TeardownIffCleanSuccess ==
    /\ (args.clean /\ pc = "exit" /\ exitCode = 0) => ~fs.source
    /\ \A i \in TeardownRemovals : \E j \in At({"zip"}) : j < i
    /\ (~args.clean \/ (pc = "exit" /\ exitCode # 0)) =>
          /\ TeardownRemovals = {}
          /\ (args.no_clone /\ fs0.source) => fs.source

-----------------------------------------------------------------------------
(* Cleanup.                                                                *)

(* C16: the cleanup step, when enabled, ends in the overwrite check with   *)
(* the artifact directory there and empty, no build directory and no       *)
(* CMakeCache.txt, from whatever it found; with --no-clean it leaves the   *)
(* content of the artifact directory, the build directory and the cache    *)
(* file as they were.                                                      *)
C16_CleanupSucceeds ==
    [][pc = "cleanup" =>
          IF args.clean
          THEN /\ pc' = "overwrite"
               /\ fs'.artifactExists
               /\ fs'.artifactFiles = {} /\ fs'.artifactDirs = {}
               /\ ~fs'.build
               /\ ~fs'.cache
          ELSE /\ pc' = "overwrite"
               /\ fs'.artifactFiles = fs.artifactFiles
               /\ fs'.artifactDirs = fs.artifactDirs
               /\ fs'.zip = fs.zip
               /\ fs'.build = fs.build
               /\ fs'.cache = fs.cache]_vars

-----------------------------------------------------------------------------
(* The --patch option.                                                     *)

\* The file a value of --patch names: by its name in the patches directory,
\* or by a name no entry of that directory has.
PatchFile(v) ==
    CASE v = "patches/1.patch" -> <<"1", ".", "p", "a", "t", "c", "h">>
      [] v = "extra.patch" -> <<"e", "x", "t", "r", "a", ".", "p", "a", "t", "c", "h">>

\* The values given with --patch on the command line.
PatchesAsked ==
    {argv[k + 1] : k \in {j \in 1..(Len(argv) - 1) : argv[j] = "--patch"}}

(* C17: once configure has started, every file named with --patch on the   *)
(* command line has been applied to the source tree with success, before   *)
(* the configure command.                                                  *)
C17_PatchOptionApplied ==
    ConfigureStarted =>
        \A v \in PatchesAsked :
            \E i \in At({"git apply"}) :
                /\ log[i].arg = PatchFile(v)
                /\ ~Failed(i)
                /\ \A c \in At({"cmake"}) : i < c

-----------------------------------------------------------------------------
(* The compiler environment.                                               *)

\* The lines of the output of the environment script, without the blanks
\* around them.
VcvarsLines ==
    LET raw == Split(vcvars, <<"\r", "\n">>, <<>>)
    IN  [k \in DOMAIN raw |-> Strip(raw[k])]

\* The position of the first "=" of a line, 0 when it has none.
FirstEq(line) ==
    IF \E k \in DOMAIN line : line[k] = "="
    THEN CHOOSE k \in DOMAIN line :
            line[k] = "=" /\ \A m \in 1..(k - 1) : line[m] # "="
    ELSE 0

\* KEY=VALUE with a KEY.
IsAssignment(line) == FirstEq(line) > 1

KeyOf(line) == SubSeq(line, 1, FirstEq(line) - 1)

AfterFirstEq(line) == SubSeq(line, FirstEq(line) + 1, Len(line))

\* Variable names are the same on Windows when they differ in case only.
SameName(a, b) ==
    /\ Len(a) = Len(b)
    /\ \A k \in DOMAIN a : Upper(a[k]) = Upper(b[k])

\* The output has nothing that reads as an assignment.
Unparseable == \A k \in DOMAIN VcvarsLines : ~IsAssignment(VcvarsLines[k])

\* The environment holds the assignment of line k.
Merged(k) ==
    \E kv \in environ :
        /\ SameName(kv[1], KeyOf(VcvarsLines[k]))
        /\ kv[2] = AfterFirstEq(VcvarsLines[k])

(* C18: on Windows, once the environment script has run: when it failed or *)
(* its output holds no assignment, the run has exited non-zero with the    *)
(* file system untouched and no step after the preflight started;          *)
(* otherwise, in a run that went on, the environment holds every KEY=VALUE *)
(* line of the output that no later line of the same name replaces, with   *)
(* everything after the first "=" as the value.                            *)
C18_VcvarsImported ==
    (platform = "win32" /\ At({"vcvars"}) # {}) =>
        IF (\E i \in At({"vcvars"}) : Failed(i)) \/ Unparseable
        THEN /\ pc = "exit" /\ exitCode # 0
             /\ fs = fs0
             /\ At(WorkOps) = {}
        ELSE pc # "exit" =>
                \A k \in DOMAIN VcvarsLines :
                    ( /\ IsAssignment(VcvarsLines[k])
                      /\ \A m \in DOMAIN VcvarsLines :
                            (m > k /\ IsAssignment(VcvarsLines[m])) =>
                                ~SameName(KeyOf(VcvarsLines[m]), KeyOf(VcvarsLines[k])) )
                    => Merged(k)

-----------------------------------------------------------------------------
(* Exit statuses.                                                          *)

\* The events of log that are external processes.
ExternalOps ==
    {"vcvars", "xcode-select", "rmdir", "git clone", "git checkout", "git apply",
     "cmake", "ninja", "ninja install", "unlock-keychain", "codesign", "signtool"}

\* A signing attempt that failed with another timestamp server left to try.
Retried(i) ==
    /\ log[i].op = "signtool"
    /\ log[i].opt # timeServers[Len(timeServers)]

(* C19: an external process that returned a non-zero status (a signing     *)
(* attempt that is tried again on the next server aside) is the last       *)
(* external process of the run, and the run does not exit with status 0;   *)
(* the Windows rmdir of the build path, the source path and the install    *)
(* path is no exception.                                                   *)
C19_EveryStatusChecked ==
    \A i \in At(ExternalOps) :
        (Failed(i) /\ ~Retried(i)) =>
            /\ \A j \in At(ExternalOps) : j <= i
            /\ pc = "exit" => exitCode # 0

-----------------------------------------------------------------------------
(* The archive of an earlier run.                                          *)

\* The preflight ended the run: the command line was refused, the toolchain
\* probe failed or the patches directory could not be listed.
PreflightFailed ==
    \/ ~parse_args(argv, Defaults).ok
    \/ \E i \in At({"vcvars", "xcode-select"}) : Failed(i)
    \/ platform = "win32" /\ ~ImportVcvars(StartEnviron, vcvars).ok
    \/ ~fs0.patchesExists

\* The run is past the initial confirmation of lines 150-152.
PastConfirm ==
    IF args.prompt
    THEN \E i \in At({"input:confirm"}) : log[i].opt = "y"
    ELSE PcRank(pc) \in 4..15 \/ (pc = "exit" /\ ~PreflightFailed)

\* Every file the signing walk of this run selects was signed.
SigningDone ==
    Signs(platform, args) =>
        \A f \in TreeFiles :
            (IF platform = "darwin" THEN f \in FatExecutables ELSE WinQualifies(f)) =>
                \E i \in At(SigningOps) :
                    /\ ~Failed(i)
                    /\ IF platform = "darwin"
                       THEN PathOf(f) \in SignedPaths(i)
                       ELSE log[i].arg = PathOf(f)

(* C20: when a run with cleanup enabled that got past the initial          *)
(* confirmation has exited and yasm-1.3.0.zip is in the artifact           *)
(* directory, then the configure, build and install commands of this run   *)
(* succeeded, every file its signing walk selects was signed and the       *)
(* archive is the one this run wrote: no archive of an earlier run is left *)
(* behind.                                                                 *)
C20_ArchiveOnlyFromThisRun ==
    (args.clean /\ PastConfirm /\ pc = "exit" /\ ZipName \in fs.artifactFiles) =>
        /\ \A op \in {"cmake", "ninja", "ninja install"} :
              \E i \in At({op}) : ~Failed(i)
        /\ SigningDone
        /\ ArchiveWritten
        /\ exitCode = 0
        /\ fs.zip = Archive(platform, fs.tree)

====
